---- MODULE Spec2Model ----
(***************************************************************************)
(* HyDRA: iterative entity alignment between two temporal knowledge graphs. *)
(* The module models the iteration controller (HyDRA_main.py), the          *)
(* retrieval stage with its temporary substitution of the KG1 entity file   *)
(* (entity_projection.py), the fusion decision broker and the merge into    *)
(* the supervision set (multi_scale_fusion.py).                             *)
(***************************************************************************)
EXTENDS Integers, Sequences, FiniteSets, TLC

\* ------------------------------------------------------------------ bounds
MaxIterations == 3
MaxKg1Count == 2

\* ------------------------------------------------------------- id universes
KG1Ids == {1, 2}
KG2Ids == {10, 100, 200, 300}
Pairs == KG1Ids \X KG2Ids

VARIABLES
    \* iteration controller (run_full_pipeline)
    cfg, pc, iteration, result, exit_reason,
    \* files of the data directory
    topk, ent_ids_1, ent_backup, sup_pairs_file, sup_backup_file,
    \* locals of the running stage
    s2r, fusion_ok,
    \* last call of add_to_sup_pairs: file before, argument, return value
    m_prev, m_in, m_ret,
    \* history
    ran, crashed, read_stale, sup_at_iter,
    \* retrieval stage data: frontier pairs, aspect_to_original, retrieval files
    entity_pairs, aspect_mapping, retriever_outputs, linked_outputs, scale_files,
    \* temporal projection of one frontier pair: the time ids of its two
    \* entities, and the interval list computed from them ({} before the call)
    entity_times, common_intervals,
    \* the HypergraphDecomposition object of a decomposition run
    decomposer,
    \* message_pool/relation_alignment.txt, and the relation alignment stage
    \* of the running iteration: its iteration number, inputs and result
    relation_alignment_file, aligner,
    \* a tab-separated input file as its lines of fields, and what a loader
    \* made of it
    input_lines, loaded,
    \* the retrieval stage of the running iteration: its number, the rebuild
    \* flag, the retrieval document, index/faiss_index, the workers' retriever
    indexer,
    \* one fusion pass: candidates, per-entity tasks, shared results
    fpc, multi_scale_pairs, task_order, submitted, tasks, result_queue,
    aligned_pairs, output_file

ctlVars == <<cfg, pc, iteration, result, exit_reason, topk, ent_ids_1, ent_backup,
             s2r, fusion_ok, ran, crashed, read_stale, sup_at_iter>>
supVars == <<sup_pairs_file, sup_backup_file, m_prev, m_in, m_ret>>
alignVars == <<relation_alignment_file, aligner>>
loadVars == <<input_lines, loaded>>
timeVars == <<entity_times, common_intervals, decomposer, alignVars, loadVars, indexer>>
scaleVars == <<entity_pairs, aspect_mapping, retriever_outputs, linked_outputs,
               scale_files, timeVars>>
passVars == <<multi_scale_pairs, task_order, submitted, tasks, result_queue,
              aligned_pairs, output_file>>
fusVars == <<fpc, scaleVars, passVars>>
vars == <<ctlVars, supVars, fusVars>>

\* ------------------------------------------------------------------ helpers
Range(s) == {s[i] : i \in DOMAIN s}

\* A file is the empty set when it does not exist and {content} when it does.
NoFile == {}
Content(f) == IF f = {} THEN {} ELSE CHOOSE c \in f : TRUE

Kg1IdsOf(S) == {p[1] : p \in S}
Kg2IdsOf(S) == {p[2] : p \in S}

\* no KG1 id and no KG2 id in more than one pair
OneToOne(S) == \A p, q \in S : (p[1] = q[1] \/ p[2] = q[2]) => p = q

\* what one fusion pass hands to the merger: list(unique_pairs), at most one
\* pair for each KG1 id, in any order
BrokerOutputs ==
    {s \in UNION {[1..n -> Pairs] : n \in 0..Cardinality(KG1Ids)} :
        \A i, j \in DOMAIN s : i # j => s[i][1] # s[j][1]}

\* ------------------------------------------------ add_to_sup_pairs (merge)
\* variant: a filter that does not look at the KG2 id
EligibleNoKg2Check(sup, p) == p[1] \notin Kg1IdsOf(sup) /\ p \notin sup

Eligible(sup, p) ==
    /\ p[1] \notin Kg1IdsOf(sup)
    /\ p[2] \notin Kg2IdsOf(sup)
    /\ p \notin sup

NewPairs(sup, aligned) == SelectSeq(aligned, LAMBDA p : Eligible(sup, p))

\* variant: the rewritten file holds only the accepted pairs
add_to_sup_pairs_only_new(aligned) ==
    LET sup == Content(sup_pairs_file)
        new_pairs == NewPairs(sup, aligned)
    IN  IF aligned = <<>> \/ new_pairs = <<>>
        THEN /\ m_ret' = 0
             /\ UNCHANGED <<sup_pairs_file, sup_backup_file>>
        ELSE /\ sup_backup_file' =
                   IF sup_pairs_file # NoFile THEN sup_pairs_file ELSE sup_backup_file
             /\ sup_pairs_file' = {Range(new_pairs)}
             /\ m_ret' = Len(new_pairs)

\* variant: the backup is taken before the filter, on every call
add_to_sup_pairs_backup_first(aligned) ==
    LET sup == Content(sup_pairs_file)
        new_pairs == NewPairs(sup, aligned)
    IN  /\ sup_backup_file' =
              IF sup_pairs_file # NoFile THEN sup_pairs_file ELSE sup_backup_file
        /\ IF aligned = <<>> \/ new_pairs = <<>>
           THEN /\ m_ret' = 0
                /\ UNCHANGED sup_pairs_file
           ELSE /\ sup_pairs_file' = {sup \cup Range(new_pairs)}
                /\ m_ret' = Len(new_pairs)

\* the files after the call and the returned count
add_to_sup_pairs(aligned) ==
    LET sup == Content(sup_pairs_file)
        new_pairs == NewPairs(sup, aligned)
    IN  IF aligned = <<>> \/ new_pairs = <<>>
        THEN /\ m_ret' = 0
             /\ UNCHANGED <<sup_pairs_file, sup_backup_file>>
        ELSE /\ sup_backup_file' =
                   IF sup_pairs_file # NoFile THEN sup_pairs_file ELSE sup_backup_file
             /\ sup_pairs_file' = {sup \cup Range(new_pairs)}
             /\ m_ret' = Len(new_pairs)

\* ------------------------------------------------------------ frontier file
TopkStates ==
    {[exists |-> FALSE, nonempty |-> FALSE, kg1 |-> 0],
     [exists |-> TRUE, nonempty |-> FALSE, kg1 |-> 0]}
    \cup {[exists |-> TRUE, nonempty |-> TRUE, kg1 |-> k] : k \in 0..MaxKg1Count}

check_s4_output(t) == t.exists /\ t.nonempty

count_unique_kg1_entities(t) == IF ~t.exists THEN 0 ELSE t.kg1

\* variant: a threshold test that is off by one
BelowThresholdOffByOne(count, min) == count < min - 1

BelowThreshold(count, min) == count < min

\* ------------------------------------------------------------ configuration
\* main() refuses --skip_s4 together with --only_s4
Configs ==
    {c \in [skip_s4 : BOOLEAN, only_s4 : BOOLEAN, data_dir : BOOLEAN,
            max_iterations : 1..MaxIterations,
            min_kg1_entities : 1..MaxKg1Count] :
        /\ ~(c.skip_s4 /\ c.only_s4)
        /\ ~c.data_dir => (~c.skip_s4 /\ ~c.only_s4 /\ c.max_iterations = 1)}

\* no retrieval data and no fusion pass in progress
PassIdle ==
    /\ multi_scale_pairs = <<>>
    /\ task_order = <<>>
    /\ submitted = 0
    /\ tasks = <<>>
    /\ result_queue = <<>>
    /\ aligned_pairs = <<>>
    /\ output_file = NoFile

temporal_aspect_counter == 1000000
relational_aspect_counter == 2000000

\* HypergraphDecomposition.__init__: no data, no aspects, counters at their
\* start values
NewDecomposer ==
    [kg1_entity_times |-> <<>>, kg2_entity_times |-> <<>>,
     kg1_entity_relations |-> <<>>, kg2_entity_relations |-> <<>>,
     relation_alignment |-> {},
     temporal_aspects |-> <<>>, relational_aspects |-> <<>>,
     aspect_to_original |-> <<>>,
     temporal_aspect_counter |-> temporal_aspect_counter,
     relational_aspect_counter |-> relational_aspect_counter,
     temporal_result |-> <<>>, relational_result |-> <<>>]

NewAligner == [iteration |-> 1, text_alignments |-> <<>>, cooccurrence |-> <<>>,
               final_alignments |-> <<>>, returned |-> "none"]

AlignIdle ==
    /\ relation_alignment_file = NoFile
    /\ aligner = NewAligner

NotLoaded == [loader |-> "none", raised |-> FALSE, rows |-> <<>>]

NewIndexer ==
    [iteration |-> 1, force_update |-> FALSE, retrieval_doc |-> {},
     faiss_index |-> NoFile, process_retriever |-> {}]

IndexIdle == indexer = NewIndexer

LoadIdle ==
    /\ input_lines = <<>>
    /\ loaded = NotLoaded

TimesIdle ==
    /\ entity_times = [kg1 |-> {}, kg2 |-> {}]
    /\ common_intervals = {}
    /\ decomposer = NewDecomposer
    /\ AlignIdle
    /\ LoadIdle
    /\ IndexIdle

RetrievalIdle ==
    /\ aspect_mapping = {}
    /\ retriever_outputs = NoFile
    /\ linked_outputs = NoFile

FusionIdle ==
    /\ fpc = "idle"
    /\ entity_pairs = <<>>
    /\ RetrievalIdle
    /\ TimesIdle
    /\ scale_files = [L1 |-> NoFile, L2 |-> NoFile, L3 |-> NoFile]
    /\ PassIdle

S2RIdle == [use_temp_file |-> FALSE, backup_made |-> FALSE, saved |-> "none",
            ok |-> FALSE, aspects |-> FALSE, dec_raised |-> FALSE]

InitialSup == {NoFile, {{}}, {{<<1, 100>>}}}

\* the pairs the fusion passes of the pipeline runs propose
RunPairs == {<<1, 100>>, <<2, 100>>, <<2, 200>>}

Init ==
    /\ cfg \in Configs
    /\ pc = "start"
    /\ iteration = 0
    /\ result = "none"
    /\ exit_reason = "none"
    /\ topk \in TopkStates
    /\ crashed \in BOOLEAN
    /\ ent_ids_1 = IF crashed THEN "query" ELSE "orig"
    /\ ent_backup = IF crashed THEN "orig" ELSE "absent"
    /\ ~cfg.data_dir => (~topk.exists /\ ~crashed)
    /\ sup_pairs_file \in (IF cfg.data_dir THEN InitialSup ELSE {NoFile})
    /\ sup_backup_file = NoFile
    /\ s2r = S2RIdle
    /\ fusion_ok = FALSE
    /\ m_prev = sup_pairs_file
    /\ m_in = <<>>
    /\ m_ret = 0
    /\ ran = {}
    /\ read_stale = FALSE
    /\ sup_at_iter = sup_pairs_file
    /\ FusionIdle

Finish(res, why) ==
    /\ pc' = "done"
    /\ result' = res
    /\ exit_reason' = why

\* ------------------------------------------------- run_full_pipeline: entry
NoDataDir ==
    /\ pc = "start"
    /\ ~cfg.data_dir
    /\ Finish("failure", "nodir")
    /\ UNCHANGED <<cfg, iteration, topk, ent_ids_1, ent_backup, s2r, fusion_ok, ran,
                   crashed, read_stale, sup_at_iter, supVars, fusVars>>

EnterLoop ==
    /\ pc = "start"
    /\ cfg.data_dir
    /\ ~cfg.only_s4
    /\ pc' = "loop"
    /\ UNCHANGED <<cfg, iteration, result, exit_reason, topk, ent_ids_1, ent_backup,
                   s2r, fusion_ok, ran, crashed, read_stale, sup_at_iter, supVars, fusVars>>

\* ensure_ent_ids_1_restored: a backup that exists is moved over the entity file
RestoredEnt == IF ent_backup # "absent" THEN ent_backup ELSE ent_ids_1

\* run_s4_training: restore, then the external trainer; a successful trainer
\* leaves a frontier file, a failed one leaves the file as it was
run_s4_training(ok, out) ==
    /\ ent_ids_1' = RestoredEnt
    /\ ent_backup' = "absent"
    /\ read_stale' = (read_stale \/ (ok /\ RestoredEnt # "orig"))
    /\ topk' = IF ok THEN out ELSE topk

OnlyS4 ==
    /\ pc = "start"
    /\ cfg.data_dir
    /\ cfg.only_s4
    /\ IF check_s4_output(topk)
       THEN /\ Finish("success", "only_s4")
            /\ UNCHANGED <<topk, ent_ids_1, ent_backup, read_stale, ran>>
       ELSE \E ok \in BOOLEAN, out \in {t \in TopkStates : t.exists} :
                /\ run_s4_training(ok, out)
                /\ ran' = ran \cup (IF ok THEN {"s4"} ELSE {"s4", "s4_failed"})
                /\ IF ok THEN Finish("success", "only_s4")
                         ELSE Finish("failure", "only_s4")
    /\ UNCHANGED <<cfg, iteration, s2r, fusion_ok, crashed, sup_at_iter, supVars, fusVars>>

\* ------------------------------------------------------ the iteration loop
\* variant: a loop test that admits one more iteration
LoopConditionInclusive(it, max) == it <= max

LoopCondition(it, max) == it < max

LoopHead ==
    /\ pc = "loop"
    /\ IF LoopCondition(iteration, cfg.max_iterations)
       THEN /\ iteration' = iteration + 1
            /\ pc' = "s4"
            /\ sup_at_iter' = sup_pairs_file
            /\ ran' = {}
            /\ UNCHANGED <<result, exit_reason>>
       ELSE /\ Finish("success", "max")
            /\ UNCHANGED <<iteration, sup_at_iter, ran>>
    /\ UNCHANGED <<cfg, topk, ent_ids_1, ent_backup, s2r, fusion_ok, crashed,
                   read_stale, supVars, fusVars>>

\* Step 1, default configuration, frontier file reused
\* variant: reuse at the first iteration too
ReuseFrontierAlways(t, it) == check_s4_output(t)

\* variant: the upstream stage is invoked at every iteration
ReuseFrontierNever(t, it) == FALSE

ReuseFrontier(t, it) == check_s4_output(t) /\ it > 1

S4Reuse ==
    /\ pc = "s4"
    /\ ~cfg.skip_s4
    /\ ReuseFrontier(topk, iteration)
    /\ pc' = "count"
    /\ UNCHANGED <<cfg, iteration, result, exit_reason, topk, ent_ids_1, ent_backup,
                   s2r, fusion_ok, ran, crashed, read_stale, sup_at_iter, supVars, fusVars>>

\* Step 1, default configuration, upstream stage invoked
\* variant: abort at every iteration
AbortOnAnyFailure(it) == TRUE

AbortOnFailure(it) == it = 1

S4Train ==
    /\ pc = "s4"
    /\ ~cfg.skip_s4
    /\ ~ReuseFrontier(topk, iteration)
    /\ \E ok \in BOOLEAN, out \in {t \in TopkStates : t.exists} :
          /\ run_s4_training(ok, out)
          /\ ran' = ran \cup (IF ok THEN {"s4"} ELSE {"s4", "s4_failed"})
          /\ IF ~ok /\ AbortOnFailure(iteration)
             THEN Finish("failure", "abort")
             ELSE /\ pc' = "count"
                  /\ UNCHANGED <<result, exit_reason>>
    /\ UNCHANGED <<cfg, iteration, s2r, fusion_ok, crashed, sup_at_iter, supVars, fusVars>>

\* Step 1 under --skip_s4
S4Skip ==
    /\ pc = "s4"
    /\ cfg.skip_s4
    /\ IF ~check_s4_output(topk) /\ AbortOnFailure(iteration)
       THEN Finish("failure", "abort")
       ELSE /\ pc' = "count"
            /\ UNCHANGED <<result, exit_reason>>
    /\ UNCHANGED <<cfg, iteration, topk, ent_ids_1, ent_backup, s2r, fusion_ok, ran,
                   crashed, read_stale, sup_at_iter, supVars, fusVars>>

\* stopping condition 1
CountCheck ==
    /\ pc = "count"
    /\ IF BelowThreshold(count_unique_kg1_entities(topk), cfg.min_kg1_entities)
       THEN Finish("success", "threshold")
       ELSE /\ pc' = "s2r_prepare"
            /\ UNCHANGED <<result, exit_reason>>
    /\ s2r' = S2RIdle
    /\ UNCHANGED <<cfg, iteration, topk, ent_ids_1, ent_backup, fusion_ok, ran,
                   crashed, read_stale, sup_at_iter, supVars, fusVars>>

\* ------------------------------------------- s4_to_retrieval (Step 2 stage)
\* The stage returns to the controller with s2r.ok as its boolean result.
S2RReturn(ok, dec_raised) ==
    /\ s2r' = [s2r EXCEPT !.ok = ok, !.dec_raised = dec_raised]
    /\ pc' = "s2r_return"

\* Steps 1-5: frontier check, relation alignment, hypergraph decomposition
\* (an exception of the decomposition is swallowed: the stage goes on without
\* aspect entities), retrieval document, query-entity file.
\* docs_ok: written_count > 0; query_ok: query_count > 0.
S2RPrepare ==
    /\ pc = "s2r_prepare"
    /\ ran' = ran \cup {"s2r"}
    /\ IF ~topk.exists
       THEN /\ S2RReturn(FALSE, FALSE)
            /\ UNCHANGED read_stale
       ELSE \E dec_raised \in BOOLEAN, aspects \in BOOLEAN,
               docs_ok \in BOOLEAN, query_ok \in BOOLEAN :
              /\ dec_raised => ~aspects
              /\ IF topk.kg1 = 0 \/ ~docs_ok
                 THEN /\ S2RReturn(FALSE, dec_raised)
                      /\ UNCHANGED read_stale
                 ELSE /\ read_stale' = (read_stale \/ ent_ids_1 # "orig")
                      /\ IF ~query_ok
                         THEN S2RReturn(FALSE, dec_raised)
                         ELSE /\ s2r' = [s2r EXCEPT !.aspects = aspects,
                                                    !.dec_raised = dec_raised]
                              /\ pc' = "s2r_swap"
    /\ UNCHANGED <<cfg, iteration, result, exit_reason, topk, ent_ids_1, ent_backup,
                   fusion_ok, crashed, sup_at_iter, supVars, fusVars>>

\* a copy that fails leaves its destination untouched or partly written
AfterFailedCopy(dest) == {dest, "partial"}

\* Step 6: copy the entity file to the backup, then the query file over the
\* entity file; use_temp_file is set only after both copies
S2RSwap ==
    /\ pc = "s2r_swap"
    /\ \E backup_copied \in BOOLEAN, installed \in BOOLEAN :
          IF ~backup_copied
          THEN /\ ent_backup' \in AfterFailedCopy(ent_backup)
               /\ UNCHANGED ent_ids_1
               /\ s2r' = [s2r EXCEPT !.ok = FALSE]
               /\ pc' = "s2r_finally"
          ELSE /\ ent_backup' = ent_ids_1
               /\ IF ~installed
                  THEN /\ ent_ids_1' \in AfterFailedCopy(ent_ids_1)
                       /\ s2r' = [s2r EXCEPT !.backup_made = TRUE,
                                             !.saved = ent_ids_1, !.ok = FALSE]
                       /\ pc' = "s2r_finally"
                  ELSE /\ ent_ids_1' = "query"
                       /\ s2r' = [s2r EXCEPT !.backup_made = TRUE,
                                             !.saved = ent_ids_1,
                                             !.use_temp_file = TRUE]
                       /\ pc' = "s2r_retrieve"
    /\ UNCHANGED <<cfg, iteration, result, exit_reason, topk, fusion_ok, ran,
                   crashed, read_stale, sup_at_iter, supVars, fusVars>>

\* Steps 7, 8, 9 inside the try block: a step that raises goes to the except
\* clause (result False) and then to the finally clause
S2RTryStep(here, next) ==
    /\ pc = here
    /\ \E raised \in BOOLEAN :
          IF raised
          THEN /\ s2r' = [s2r EXCEPT !.ok = FALSE]
               /\ pc' = "s2r_finally"
          ELSE /\ s2r' = [s2r EXCEPT !.ok = (next = "s2r_finally")]
               /\ pc' = next
    /\ UNCHANGED <<cfg, iteration, result, exit_reason, topk, ent_ids_1, ent_backup,
                   fusion_ok, ran, crashed, read_stale, sup_at_iter, supVars, fusVars>>

S2RRetrieve == S2RTryStep("s2r_retrieve", "s2r_link")

S2RLink == S2RTryStep("s2r_link", "s2r_assemble")

S2RAssemble == S2RTryStep("s2r_assemble", "s2r_finally")

\* the finally clause
\* variant: a restore that does not depend on use_temp_file
RestoreAlways(use_temp_file) == TRUE

RestoreGuard(use_temp_file) == use_temp_file

S2RFinally ==
    /\ pc = "s2r_finally"
    /\ IF RestoreGuard(s2r.use_temp_file) /\ ent_backup # "absent"
       THEN /\ ent_ids_1' = ent_backup
            /\ ent_backup' = "absent"
       ELSE UNCHANGED <<ent_ids_1, ent_backup>>
    /\ pc' = "s2r_return"
    /\ UNCHANGED <<cfg, iteration, result, exit_reason, topk, s2r, fusion_ok, ran,
                   crashed, read_stale, sup_at_iter, supVars, fusVars>>

\* run_full_pipeline after Step 2
AfterS2R ==
    /\ pc = "s2r_return"
    /\ IF s2r.ok
       THEN /\ pc' = "fusion"
            /\ UNCHANGED <<result, exit_reason>>
       ELSE IF AbortOnFailure(iteration)
            THEN Finish("failure", "abort")
            ELSE /\ pc' = "loop"
                 /\ UNCHANGED <<result, exit_reason>>
    /\ UNCHANGED <<cfg, iteration, topk, ent_ids_1, ent_backup, s2r, fusion_ok, ran,
                   crashed, read_stale, sup_at_iter, supVars, fusVars>>

\* ------------------------------ run_multi_scale_fusion (Step 3 stage)
\* One fusion pass: the per-entity tasks leave the deduplicated pairs
\* `aligned`; non-empty pairs are merged into the supervision set; the stage
\* succeeds when the pairs are non-empty. A pass that raises merges nothing.
Fusion ==
    /\ pc = "fusion"
    /\ read_stale' = (read_stale \/ ent_ids_1 # "orig")
    /\ \/ /\ fusion_ok' = FALSE
          /\ ran' = ran \cup {"fusion"}
          /\ UNCHANGED supVars
       \/ \E aligned \in {a \in BrokerOutputs : Range(a) \subseteq RunPairs} :
             IF aligned = <<>>
             THEN /\ fusion_ok' = FALSE
                  /\ ran' = ran \cup {"fusion"}
                  /\ UNCHANGED supVars
             ELSE /\ fusion_ok' = TRUE
                  /\ ran' = ran \cup {"fusion", "merge"}
                  /\ add_to_sup_pairs(aligned)
                  /\ UNCHANGED <<m_prev, m_in>>
    /\ pc' = "fusion_return"
    /\ UNCHANGED <<cfg, iteration, result, exit_reason, topk, ent_ids_1, ent_backup,
                   s2r, crashed, sup_at_iter, fusVars>>

\* run_full_pipeline after Step 3
AfterFusion ==
    /\ pc = "fusion_return"
    /\ IF fusion_ok
       THEN IF iteration >= cfg.max_iterations
            THEN Finish("success", "max")
            ELSE /\ pc' = "loop"
                 /\ UNCHANGED <<result, exit_reason>>
       ELSE IF AbortOnFailure(iteration)
            THEN Finish("failure", "abort")
            ELSE /\ pc' = "loop"
                 /\ UNCHANGED <<result, exit_reason>>
    /\ UNCHANGED <<cfg, iteration, topk, ent_ids_1, ent_backup, s2r, fusion_ok, ran,
                   crashed, read_stale, sup_at_iter, supVars, fusVars>>

Next ==
    \/ NoDataDir
    \/ EnterLoop
    \/ OnlyS4
    \/ LoopHead
    \/ S4Reuse
    \/ S4Train
    \/ S4Skip
    \/ CountCheck
    \/ S2RPrepare
    \/ S2RSwap
    \/ S2RRetrieve
    \/ S2RLink
    \/ S2RAssemble
    \/ S2RFinally
    \/ AfterS2R
    \/ AfterFusion
    \/ Fusion

Spec == Init /\ [][Next]_vars

FairSpec == Spec /\ WF_vars(Next)

\* ------------------------------------------------ merges on their own
\* Any sequence of merges of broker outputs into a supervision set that starts
\* one-to-one (or absent).
\* the controller is not running: only the stage under study acts
ControllerIdle ==
    /\ cfg = [skip_s4 |-> TRUE, only_s4 |-> FALSE, data_dir |-> TRUE,
              max_iterations |-> 1, min_kg1_entities |-> 1]
    /\ pc = "stage"
    /\ iteration = 0
    /\ result = "none"
    /\ exit_reason = "none"
    /\ topk = [exists |-> FALSE, nonempty |-> FALSE, kg1 |-> 0]
    /\ crashed = FALSE
    /\ ent_ids_1 = "orig"
    /\ ent_backup = "absent"
    /\ s2r = S2RIdle
    /\ fusion_ok = FALSE
    /\ ran = {}
    /\ read_stale = FALSE

SupIdle ==
    /\ sup_backup_file = NoFile
    /\ m_prev = sup_pairs_file
    /\ m_in = <<>>
    /\ m_ret = 0
    /\ sup_at_iter = sup_pairs_file

InitMerge ==
    /\ ControllerIdle
    /\ sup_pairs_file \in {NoFile} \cup {{S} : S \in {T \in SUBSET Pairs : OneToOne(T)}}
    /\ SupIdle
    /\ FusionIdle

Merge ==
    /\ pc = "stage"
    /\ fpc = "idle"
    /\ \E aligned \in BrokerOutputs :
          /\ add_to_sup_pairs(aligned)
          /\ m_prev' = sup_pairs_file
          /\ m_in' = aligned
    /\ UNCHANGED <<ctlVars, fusVars>>



NextMerge == Merge

SpecMerge == InitMerge /\ [][NextMerge]_vars

\* add_to_sup_pairs called on any list of proposed pairs
MaxProposed == 2

ProposedLists == UNION {[1..n -> Pairs] : n \in 0..MaxProposed}

MergeList ==
    /\ pc = "stage"
    /\ fpc = "idle"
    /\ \E aligned \in ProposedLists :
          /\ add_to_sup_pairs(aligned)
          /\ m_prev' = sup_pairs_file
          /\ m_in' = aligned
    /\ UNCHANGED <<ctlVars, fusVars>>

NextMergeList == MergeList

SpecMergeList == InitMerge /\ [][NextMergeList]_vars

\* ---------------------------------------------------------- text of answers
\* A text is a sequence of one-character strings.
Digits == <<"0", "1", "2", "3", "4", "5", "6", "7", "8", "9">>

\* str(n) of a natural number
RECURSIVE Str(_)
Str(n) == IF n < 10 THEN <<Digits[n + 1]>>
          ELSE Str(n \div 10) \o <<Digits[(n % 10) + 1]>>

\* `sub in s` of two texts
Contains(sub, s) ==
    \E i \in 0..(Len(s) - Len(sub)) : SubSeq(s, i + 1, i + Len(sub)) = sub

\* s.strip()
RECURSIVE Strip(_)
Strip(s) ==
    IF s = <<>> THEN s
    ELSE IF Head(s) = " " THEN Strip(Tail(s))
    ELSE IF s[Len(s)] = " " THEN Strip(SubSeq(s, 1, Len(s) - 1))
    ELSE s

\* s.lower() on the letters the answers use
Lower(s) == [i \in DOMAIN s |-> IF s[i] = "N" THEN "n"
                                ELSE IF s[i] = "O" THEN "o" ELSE s[i]]

\* message contents the decision oracle returns
OracleAnswers ==
    {<<"N", "o">>, <<" ", "N", "O", " ">>, <<"1", "0">>, <<"1", "0", "0">>,
     <<"2", "0", "0">>, <<"1", "0", "0", "0", "0", "0", "0">>}

\* ------------------------------------------------------ sequences and files
Lines(f) == IF f = NoFile THEN <<>> ELSE Content(f)

Perms(S) == {s \in [1..Cardinality(S) -> S] : Range(s) = S}

PairLess(p, q) == p[1] < q[1] \/ (p[1] = q[1] /\ p[2] < q[2])

\* variant: the unique pairs written in the set's own order
SortPairsAnyOrder(S) ==
    CHOOSE s \in Perms(S) : \A i, j \in DOMAIN s : i < j => ~PairLess(s[i], s[j])

\* sorted(unique_pairs)
SortPairs(S) == CHOOSE s \in Perms(S) : \A i, j \in DOMAIN s : i < j => PairLess(s[i], s[j])

\* first occurrences, in order
RECURSIVE Dedup(_)
Dedup(s) ==
    IF s = <<>> THEN <<>>
    ELSE LET r == Dedup(SubSeq(s, 1, Len(s) - 1))
         IN  IF s[Len(s)] \in Range(r) THEN r ELSE Append(r, s[Len(s)])

\* ------------------------------------------------ hypergraph decomposition

\* aspect ids handed out, in frontier order, to the frontier pairs at the
\* positions `sel`: {aspect_id: original_kg2_id} as a set of pairs
AspectsFor(pairs, sel, start) ==
    {<<start + Cardinality({j \in sel : j < i}), pairs[i][2]>> : i \in sel}

AspectIdsOf(mapping) == {m[1] : m \in mapping}

OriginalOf(mapping, aspect_id) == (CHOOSE m \in mapping : m[1] = aspect_id)[2]

\* sorted(common_times)
RECURSIVE SortedTimes(_)
SortedTimes(times) ==
    IF times = {} THEN <<>>
    ELSE LET first == CHOOSE t \in times : \A u \in times : t <= u
         IN  <<first>> \o SortedTimes(times \ {first})

\* variant: a gap of one time id is bridged
AdjacentOrNear(time_id, end) == time_id <= end + 2

Adjacent(time_id, end) == time_id = end + 1

\* the loop over sorted_times[1:] with its local start, end and intervals,
\* and the append after the loop
RECURSIVE MergeTimes(_, _, _, _)
MergeTimes(rest, start, end, intervals) ==
    IF rest = <<>> THEN Append(intervals, <<start, end>>)
    ELSE IF Adjacent(Head(rest), end)
    THEN MergeTimes(Tail(rest), start, Head(rest), intervals)
    ELSE MergeTimes(Tail(rest), Head(rest), Head(rest),
                    Append(intervals, <<start, end>>))

_get_common_time_intervals(times1, times2) ==
    LET common_times == times1 \cap times2
        sorted_times == SortedTimes(common_times)
    IN  IF common_times = {} THEN <<>>
        ELSE MergeTimes(Tail(sorted_times), sorted_times[1], sorted_times[1], <<>>)

\* dict.get(key, set()) and dict[key] = value on dictionaries kept as functions
Get(dict, key) == IF key \in DOMAIN dict THEN dict[key] ELSE {}

Put(dict, key, value) ==
    [k \in DOMAIN dict \cup {key} |-> IF k = key THEN value ELSE dict[k]]

\* variant: relations are matched by equal id, the alignment is not used
_get_common_relations_by_id(self, kg1_id, kg2_id) ==
    LET kg1_rels == Get(self.kg1_entity_relations, kg1_id)
        kg2_rels == Get(self.kg2_entity_relations, kg2_id)
    IN  {r2 \in kg2_rels : r2[1] \in {r1[1] : r1 \in kg1_rels}}

\* relation_alignment is the set of (kg1 relation, kg2 relation) it maps
_get_common_relations(self, kg1_id, kg2_id) ==
    LET kg1_rels == Get(self.kg1_entity_relations, kg1_id)
        kg2_rels == Get(self.kg2_entity_relations, kg2_id)
        kg1_rel_ids == {r[1] : r \in kg1_rels}
        kg2_aligned_rel_ids ==
            {a[2] : a \in {b \in self.relation_alignment : b[1] \in kg1_rel_ids}}
    IN  IF self.relation_alignment = {} THEN {}
        ELSE {r \in kg2_rels : r[1] \in kg2_aligned_rel_ids}

\* variant: the counter is not advanced
NextAspectIdSame(counter) == counter

NextAspectId(counter) == counter + 1

\* variant: a temporal aspect is created for every pair
TemporalProjectionAlways(self, pair) ==
    LET common_intervals_ == _get_common_time_intervals(
                                 Get(self.kg1_entity_times, pair[1]),
                                 Get(self.kg2_entity_times, pair[2]))
        aspect_id == self.temporal_aspect_counter
    IN  [self EXCEPT
            !.temporal_aspect_counter = NextAspectId(@),
            !.temporal_aspects = Put(@, aspect_id, <<pair[2], common_intervals_>>),
            !.aspect_to_original = Put(@, aspect_id, pair[2]),
            !.temporal_result = Append(@, <<pair[1], aspect_id>>)]

\* first half of the loop body of decompose
TemporalProjection(self, pair) ==
    LET common_intervals_ == _get_common_time_intervals(
                                 Get(self.kg1_entity_times, pair[1]),
                                 Get(self.kg2_entity_times, pair[2]))
        aspect_id == self.temporal_aspect_counter
    IN  IF common_intervals_ = <<>> THEN self
        ELSE [self EXCEPT
                !.temporal_aspect_counter = NextAspectId(@),
                !.temporal_aspects = Put(@, aspect_id, <<pair[2], common_intervals_>>),
                !.aspect_to_original = Put(@, aspect_id, pair[2]),
                !.temporal_result = Append(@, <<pair[1], aspect_id>>)]

\* second half of the loop body of decompose
RelationalProjection(self, pair) ==
    LET common_rels == _get_common_relations(self, pair[1], pair[2])
        aspect_id == self.relational_aspect_counter
    IN  IF common_rels = {} THEN self
        ELSE [self EXCEPT
                !.relational_aspect_counter = NextAspectId(@),
                !.relational_aspects = Put(@, aspect_id, <<pair[2], common_rels>>),
                !.aspect_to_original = Put(@, aspect_id, pair[2]),
                !.relational_result = Append(@, <<pair[1], aspect_id>>)]

\* the loop of decompose over entity_pairs from position i on
RECURSIVE decompose(_, _, _)
decompose(self, pairs, i) ==
    IF i > Len(pairs) THEN self
    ELSE decompose(RelationalProjection(TemporalProjection(self, pairs[i]), pairs[i]),
                   pairs, i + 1)

\* frontier files of the stage runs
Frontiers ==
    {<<<<1, 100>>>>, <<<<1, 100>>, <<2, 100>>>>, <<<<1, 100>>, <<2, 200>>>>}

\* run_hypergraph_decomposition inside s4_to_retrieval: an exception leaves no
\* aspect; otherwise a pair gets a temporal (relational) aspect when the two
\* entities share time intervals (relation-tail combinations)
Decompose ==
    /\ fpc = "decompose"
    /\ \E raised \in BOOLEAN :
          IF raised
          THEN aspect_mapping' = {}
          ELSE \E temporal \in SUBSET DOMAIN entity_pairs,
                  relational \in SUBSET DOMAIN entity_pairs :
                  aspect_mapping' =
                      AspectsFor(entity_pairs, temporal, temporal_aspect_counter)
                      \cup AspectsFor(entity_pairs, relational, relational_aspect_counter)
    /\ fpc' = "retrieve"
    /\ UNCHANGED <<ctlVars, supVars, passVars, timeVars, entity_pairs, retriever_outputs,
                   linked_outputs, scale_files>>

\* ----------------------------------------------------------- neural retrieval
\* hits written for one query entity (none when its retrieval raised)
MaxHits == 1

HitLists(corpus) ==
    {h \in UNION {[1..n -> corpus] : n \in 0..MaxHits} :
        \A i, j \in DOMAIN h : i # j => h[i] # h[j]}

RECURSIVE RetrievalLines(_, _)
RetrievalLines(queries, hits) ==
    IF queries = <<>> THEN <<>>
    ELSE LET q == Head(queries)
         IN  [i \in DOMAIN hits[q] |-> <<q, hits[q][i]>>]
             \o RetrievalLines(Tail(queries), hits)

\* neural_retrieval: the queries are the KG1 ids of the frontier, the corpus
\* is the retrieval document (KG2 ids of the frontier and the aspect ids)
Retrieve ==
    /\ fpc = "retrieve"
    /\ LET queries == Dedup([i \in DOMAIN entity_pairs |-> entity_pairs[i][1]])
           corpus == Kg2IdsOf(Range(entity_pairs)) \cup AspectIdsOf(aspect_mapping)
       IN  \E hits \in [Range(queries) -> HitLists(corpus)] :
              retriever_outputs' = {RetrievalLines(queries, hits)}
    /\ fpc' = "link"
    /\ UNCHANGED <<ctlVars, supVars, passVars, timeVars, entity_pairs, aspect_mapping,
                   linked_outputs, scale_files>>

\* link_retrieval_results_to_original: a hit on an aspect is written as
\* kg1, original KG2 id, aspect id
LinkedLines(lines, mapping) ==
    [i \in DOMAIN lines |->
        IF lines[i][2] \in AspectIdsOf(mapping)
        THEN <<lines[i][1], OriginalOf(mapping, lines[i][2]), lines[i][2]>>
        ELSE lines[i]]

\* Step 8 of s4_to_retrieval: link, or copy when there is no aspect
Link ==
    /\ fpc = "link"
    /\ linked_outputs' =
          IF retriever_outputs = NoFile THEN linked_outputs
          ELSE IF aspect_mapping # {}
               THEN {LinkedLines(Lines(retriever_outputs), aspect_mapping)}
               ELSE retriever_outputs
    /\ fpc' = "assemble"
    /\ UNCHANGED <<ctlVars, supVars, passVars, timeVars, entity_pairs, aspect_mapping,
                   retriever_outputs, scale_files>>

\* create_multi_scale_hypergraph_representation: L1 is the frontier file, L2
\* the retrieval output, L3 the linked retrieval output
Assemble ==
    /\ fpc = "assemble"
    /\ scale_files' =
          [L1 |-> {entity_pairs},
           L2 |-> IF retriever_outputs # NoFile THEN retriever_outputs
                  ELSE scale_files.L2,
           L3 |-> IF linked_outputs # NoFile THEN linked_outputs
                  ELSE scale_files.L3]
    /\ fpc' = "load"
    /\ UNCHANGED <<ctlVars, supVars, passVars, timeVars, entity_pairs, aspect_mapping,
                   retriever_outputs, linked_outputs>>

\* ------------------------------------------------------- one fusion pass
max_workers == 30

KeyColumn(lines) == [i \in DOMAIN lines |-> lines[i][1]]

Column(lines, k) ==
    LET own == SelectSeq(lines, LAMBDA l : l[1] = k)
    IN  [i \in DOMAIN own |-> own[i][2]]

\* {kg1_id: {'L1': [kg2 ids], 'L2': [...], 'L3': [...]}}; a missing file
\* contributes nothing
load_multi_scale_pairs(files) ==
    LET keys == Range(KeyColumn(Lines(files.L1))) \cup Range(KeyColumn(Lines(files.L2)))
                \cup Range(KeyColumn(Lines(files.L3)))
    IN  [k \in keys |-> [L1 |-> Column(Lines(files.L1), k),
                         L2 |-> Column(Lines(files.L2), k),
                         L3 |-> Column(Lines(files.L3), k)]]

\* the keys in the order the dictionary got them
TaskOrder(files) ==
    Dedup(KeyColumn(Lines(files.L1)) \o KeyColumn(Lines(files.L2))
          \o KeyColumn(Lines(files.L3)))

AllCandidates(info) == Range(info.L1) \cup Range(info.L2) \cup Range(info.L3)

\* ------------------------------------------------------- conflict analysis
\* None is the empty set, a value v is {v}
None == {}

Scales == <<"L1", "L2", "L3">>

confidence_signal(candidates) ==
    IF Len(candidates) = 1 THEN "strong"
    ELSE IF Len(candidates) <= 3 THEN "medium"
    ELSE "weak"

analyze_intra_scale_interaction(candidate_info) ==
    [scale \in Range(Scales) |->
        [candidate_count |-> Len(candidate_info[scale]),
         top_candidate |-> IF candidate_info[scale] # <<>>
                           THEN {candidate_info[scale][1]} ELSE None,
         confidence_signal |-> confidence_signal(candidate_info[scale])]]

\* the scales that have candidates, in the order L1, L2, L3, each with its
\* rank-1 candidate
top_candidates(candidate_info) ==
    LET present == SelectSeq(Scales, LAMBDA scale : candidate_info[scale] # <<>>)
    IN  [i \in DOMAIN present |-> <<present[i], candidate_info[present[i]][1]>>]

\* variant: two scales are still too few to compare
InsufficientScalesTwo(top) == Len(top) <= 2

InsufficientScales(top) == Len(top) <= 1

candidate_counts(top_values, kg2_id) ==
    Cardinality({i \in DOMAIN top_values : top_values[i] = kg2_id})

\* variant: of the most frequent values, the one met last
MajorityVoteLast(top_values) ==
    LET best == CHOOSE i \in DOMAIN top_values :
                   /\ \A j \in DOMAIN top_values :
                         candidate_counts(top_values, top_values[j])
                            <= candidate_counts(top_values, top_values[i])
                   /\ \A j \in DOMAIN top_values :
                         j > i => candidate_counts(top_values, top_values[j])
                                     < candidate_counts(top_values, top_values[i])
    IN  top_values[best]

\* max over the counts in the order the values were first met: the first of
\* the most frequent values
MajorityVote(top_values) ==
    LET best == CHOOSE i \in DOMAIN top_values :
                   /\ \A j \in DOMAIN top_values :
                         candidate_counts(top_values, top_values[j])
                            <= candidate_counts(top_values, top_values[i])
                   /\ \A j \in DOMAIN top_values :
                         j < i => candidate_counts(top_values, top_values[j])
                                     < candidate_counts(top_values, top_values[i])
    IN  top_values[best]

detect_cross_scale_conflicts(candidate_info) ==
    LET top == top_candidates(candidate_info)
        top_values == [i \in DOMAIN top |-> top[i][2]]
    IN  IF InsufficientScales(top)
        THEN [has_conflict |-> FALSE, conflicting_scales |-> <<>>,
              top_candidates |-> top,
              consensus_candidate |-> IF top # <<>> THEN {top_values[1]} ELSE None]
        ELSE IF Cardinality(Range(top_values)) = 1
        THEN [has_conflict |-> FALSE, conflicting_scales |-> <<>>,
              top_candidates |-> top, consensus_candidate |-> {top_values[1]}]
        ELSE LET consensus_candidate == MajorityVote(top_values)
                 differing == SelectSeq(top, LAMBDA t : t[2] # consensus_candidate)
             IN  [has_conflict |-> TRUE,
                  conflicting_scales |-> [i \in DOMAIN differing |-> differing[i][1]],
                  top_candidates |-> top,
                  consensus_candidate |-> {consensus_candidate}]

detect_intra_scale_conflicts(candidate_info) ==
    [conflicted_scales |->
        SelectSeq(Scales, LAMBDA scale : Len(candidate_info[scale]) > 3)]

\* what fusion_task computes from candidate_info before it builds the request
ConflictReport(candidate_info) ==
    [scale_analysis |-> analyze_intra_scale_interaction(candidate_info),
     cross_scale_conflicts |-> detect_cross_scale_conflicts(candidate_info),
     intra_scale_conflicts |-> detect_intra_scale_conflicts(candidate_info)]

\* calls: oracle calls made for the entity; failed: its task ended in the
\* except clause
\* report: the conflict analysis made for the entity, {} before it is made
NewTask ==
    [st |-> "new", answer |-> <<>>, calls |-> 0, failed |-> FALSE, report |-> {},
     recorded |-> {}]

FinishedTask(t) == [t EXCEPT !.st = "finished", !.answer = <<>>]

\* variant: a failed entity is put back for another attempt
FailedTaskRequeued(t) == [t EXCEPT !.st = "queued", !.failed = TRUE]

\* the except clause of fusion_task: the entity is dropped
FailedTask(t) == [t EXCEPT !.st = "finished", !.answer = <<>>, !.failed = TRUE]

LoadPairs ==
    /\ fpc = "load"
    /\ multi_scale_pairs' = load_multi_scale_pairs(scale_files)
    /\ task_order' = TaskOrder(scale_files)
    /\ tasks' = [k \in DOMAIN multi_scale_pairs' |-> NewTask]
    /\ submitted' = 0
    /\ result_queue' = <<>>
    /\ aligned_pairs' = <<>>
    /\ fpc' = IF DOMAIN multi_scale_pairs' = {} THEN "done" ELSE "submit"
    /\ UNCHANGED <<ctlVars, supVars, scaleVars, output_file>>

\* executor.submit for the next KG1 entity
Submit ==
    /\ fpc = "submit"
    /\ submitted' = submitted + 1
    /\ tasks' = [tasks EXCEPT ![task_order[submitted + 1]].st = "queued"]
    /\ fpc' = IF submitted + 1 = Len(task_order) THEN "shutdown" ELSE "submit"
    /\ UNCHANGED <<ctlVars, supVars, scaleVars, multi_scale_pairs, task_order,
                   result_queue, aligned_pairs, output_file>>

Running == {k \in DOMAIN tasks : tasks[k].st = "asked"}

\* fusion_task up to the oracle's answer: a worker takes the task, builds the
\* request and calls the oracle; an exception while building the request or
\* in the call ends the task
TaskAsk ==
    /\ fpc \in {"submit", "shutdown"}
    /\ \E k \in DOMAIN tasks :
          /\ tasks[k].st = "queued"
          /\ Cardinality(Running) < max_workers
          /\ IF AllCandidates(multi_scale_pairs[k]) = {}
             THEN tasks' = [tasks EXCEPT ![k] = FinishedTask(@)]
             ELSE \E outcome \in {"build_error", "oracle_error", "answer"},
                     content \in OracleAnswers :
                     LET analysed == [tasks[k] EXCEPT !.report =
                                         {ConflictReport(multi_scale_pairs[k])}]
                     IN  tasks' = [tasks EXCEPT ![k] =
                                     IF outcome = "build_error" THEN FailedTask(analysed)
                                     ELSE IF outcome = "oracle_error"
                                     THEN FailedTask([analysed EXCEPT !.calls = @ + 1])
                                     ELSE [analysed EXCEPT !.st = "asked",
                                                           !.answer = Strip(content),
                                                           !.calls = @ + 1]]
    /\ UNCHANGED <<ctlVars, supVars, scaleVars, fpc, multi_scale_pairs, task_order,
                   submitted, result_queue, aligned_pairs, output_file>>

Matches(answer, cands) == {c \in cands : Contains(Str(c), answer)}

\* variant: a parse loop without the break records every matching candidate
RecordedNoBreak(k, answer, cands) ==
    IF Lower(answer) = <<"n", "o">> THEN {<<>>}
    ELSE {[i \in DOMAIN s |-> <<k, s[i]>>] : s \in Perms(Matches(answer, cands))}

\* the pairs one task can record: none for the answer "no" or without a
\* match, else one pair, for the first candidate of the set's iteration order
\* whose decimal id occurs in the answer
Recorded(k, answer, cands) ==
    IF Lower(answer) = <<"n", "o">> \/ Matches(answer, cands) = {} THEN {<<>>}
    ELSE {<<<<k, c>>>> : c \in Matches(answer, cands)}

\* variant: an unprotected read-modify-write that drops what others appended
RecordUnprotected(collection, rec) == rec

\* `with lock:` around the put and the append: one task at a time
RecordUnderLock(collection, rec) == collection \o rec

\* fusion_task after the answer: parse, and record under the lock
TaskParse ==
    /\ \E k \in DOMAIN tasks :
          /\ tasks[k].st = "asked"
          /\ \E rec \in Recorded(k, tasks[k].answer, AllCandidates(multi_scale_pairs[k])) :
                /\ result_queue' = RecordUnderLock(result_queue, rec)
                /\ aligned_pairs' = RecordUnderLock(aligned_pairs, rec)
                /\ tasks' = [tasks EXCEPT ![k] = [FinishedTask(@) EXCEPT
                                                     !.recorded = Range(rec)]]
    /\ UNCHANGED <<ctlVars, supVars, scaleVars, fpc, multi_scale_pairs, task_order,
                   submitted, output_file>>

\* executor.shutdown(wait=True)
Shutdown ==
    /\ fpc = "shutdown"
    /\ \A k \in DOMAIN tasks : tasks[k].st = "finished"
    /\ fpc' = "write"
    /\ UNCHANGED <<ctlVars, supVars, scaleVars, passVars>>

\* the queue is drained into the output file
WriteResults ==
    /\ fpc = "write"
    /\ output_file' = {result_queue}
    /\ result_queue' = <<>>
    /\ fpc' = "dedup"
    /\ UNCHANGED <<ctlVars, supVars, scaleVars, multi_scale_pairs, task_order,
                   submitted, tasks, aligned_pairs>>

\* deduplicate_output_file, then aligned_pairs = list(unique_pairs)
Deduplicate ==
    /\ fpc = "dedup"
    /\ LET unique_pairs == Range(Lines(output_file))
       IN  /\ output_file' = {SortPairs(unique_pairs)}
           /\ aligned_pairs' \in Perms(unique_pairs)
    /\ fpc' = "merge"
    /\ UNCHANGED <<ctlVars, supVars, scaleVars, multi_scale_pairs, task_order,
                   submitted, tasks, result_queue>>

\* non-empty results go to add_to_sup_pairs; the pass returns aligned_pairs
MergeResults ==
    /\ fpc = "merge"
    /\ IF aligned_pairs # <<>>
       THEN /\ add_to_sup_pairs(aligned_pairs)
            /\ m_prev' = sup_pairs_file
            /\ m_in' = aligned_pairs
       ELSE UNCHANGED <<sup_pairs_file, sup_backup_file, m_prev, m_in, m_ret>>
    /\ fpc' = "done"
    /\ UNCHANGED <<ctlVars, sup_at_iter, scaleVars, passVars>>

NextFusion ==
    \/ LoadPairs
    \/ Submit
    \/ TaskAsk
    \/ TaskParse
    \/ Shutdown
    \/ WriteResults
    \/ Deduplicate
    \/ MergeResults

\* scale files a retrieval stage can leave behind
ScaleFileSets ==
    {[L1 |-> {<<<<1, 100>>, <<2, 100>>>>}, L2 |-> {<<<<1, 10>>, <<2, 200>>>>},
      L3 |-> {<<<<1, 10>>, <<2, 200>>>>}],
     [L1 |-> {<<<<1, 100>>>>}, L2 |-> {<<<<1, 1000000>>>>},
      L3 |-> {<<<<1, 100, 1000000>>>>}],
     [L1 |-> {<<<<2, 200>>, <<1, 100>>>>}, L2 |-> {<<>>}, L3 |-> {<<>>}],
     [L1 |-> {<<>>}, L2 |-> NoFile, L3 |-> NoFile]}

InitFusion ==
    /\ ControllerIdle
    /\ sup_pairs_file \in InitialSup
    /\ SupIdle
    /\ fpc = "load"
    /\ entity_pairs = <<>>
    /\ RetrievalIdle
    /\ TimesIdle
    /\ scale_files \in ScaleFileSets
    /\ PassIdle

SpecFusion == InitFusion /\ [][NextFusion]_vars

\* the retrieval stage's data steps followed by the fusion pass
InitScale ==
    /\ ControllerIdle
    /\ sup_pairs_file = {{}}
    /\ SupIdle
    /\ fpc = "decompose"
    /\ entity_pairs \in Frontiers
    /\ RetrievalIdle
    /\ TimesIdle
    /\ scale_files = [L1 |-> NoFile, L2 |-> NoFile, L3 |-> NoFile]
    /\ PassIdle

NextScale ==
    \/ Decompose
    \/ Retrieve
    \/ Link
    \/ Assemble
    \/ NextFusion

SpecScale == InitScale /\ [][NextScale]_vars

\* the temporal projection applied to the time ids of one frontier pair
MaxTime == 3

TimeIds == 0..MaxTime

InitIntervals ==
    /\ ControllerIdle
    /\ sup_pairs_file = {{}}
    /\ SupIdle
    /\ fpc = "decompose"
    /\ entity_pairs = <<<<1, 100>>>>
    /\ RetrievalIdle
    /\ entity_times \in [kg1 : SUBSET TimeIds, kg2 : SUBSET TimeIds]
    /\ common_intervals = {}
    /\ decomposer = NewDecomposer
    /\ AlignIdle
    /\ LoadIdle
    /\ IndexIdle
    /\ scale_files = [L1 |-> NoFile, L2 |-> NoFile, L3 |-> NoFile]
    /\ PassIdle

CommonTimeIntervals ==
    /\ fpc = "decompose"
    /\ common_intervals = {}
    /\ common_intervals' =
          {_get_common_time_intervals(entity_times.kg1, entity_times.kg2)}
    /\ UNCHANGED <<ctlVars, supVars, fpc, passVars, entity_pairs, aspect_mapping,
                   retriever_outputs, linked_outputs, scale_files, entity_times,
                   decomposer, alignVars, loadVars, indexer>>

NextIntervals == CommonTimeIntervals

SpecIntervals == InitIntervals /\ [][NextIntervals]_vars

\* one decomposition run over a frontier whose KG2 ids are any integers
MaxPairs == 2

AnyKg2Ids == {100, temporal_aspect_counter}

AnyFrontiers == UNION {[1..n -> KG1Ids \X AnyKg2Ids] : n \in 0..MaxPairs}

InitDecompose ==
    /\ ControllerIdle
    /\ sup_pairs_file = {{}}
    /\ SupIdle
    /\ fpc = "decompose"
    /\ entity_pairs \in AnyFrontiers
    /\ RetrievalIdle
    /\ TimesIdle
    /\ scale_files = [L1 |-> NoFile, L2 |-> NoFile, L3 |-> NoFile]
    /\ PassIdle

NextDecompose == Decompose

SpecDecompose == InitDecompose /\ [][NextDecompose]_vars

\* ------------------------------------------------------------ file loaders
\* int(text): whether it succeeds, and its value
IsInt(text) ==
    /\ Strip(text) # <<>>
    /\ \A i \in DOMAIN Strip(text) : Strip(text)[i] \in Range(Digits)

DigitValue(c) == CHOOSE d \in 0..9 : Digits[d + 1] = c

RECURSIVE IntOfDigits(_)
IntOfDigits(text) ==
    IF text = <<>> THEN 0
    ELSE 10 * IntOfDigits(SubSeq(text, 1, Len(text) - 1)) + DigitValue(text[Len(text)])

IntOf(text) == IntOfDigits(Strip(text))

\* the loop `for line in f` from line i on: a line with fewer than
\* min_columns fields is passed over; the fields in int_columns go through
\* int(), an absent time column reads 0 (time_end: time_start); a failing
\* int() is caught only by a loader that guards it
RowOf(parts, int_columns) ==
    [c \in int_columns |->
        IF c \in DOMAIN parts THEN IntOf(parts[c])
        ELSE IF c = 5 /\ 4 \in DOMAIN parts THEN IntOf(parts[4])
        ELSE 0]

RECURSIVE LoadRows(_, _, _, _, _, _)
LoadRows(lines, i, rows, min_columns, int_columns, guarded) ==
    IF i > Len(lines) THEN [raised |-> FALSE, rows |-> rows]
    ELSE LET parts == lines[i]
             columns == int_columns \cap DOMAIN parts
         IN  IF Len(parts) < min_columns
             THEN LoadRows(lines, i + 1, rows, min_columns, int_columns, guarded)
             ELSE IF \A c \in columns : IsInt(parts[c])
             THEN LoadRows(lines, i + 1,
                           Append(rows, RowOf(parts, int_columns)),
                           min_columns, int_columns, guarded)
             ELSE IF guarded
             THEN LoadRows(lines, i + 1, rows, min_columns, int_columns, guarded)
             ELSE [raised |-> TRUE, rows |-> <<>>]

\* relation_alignment.py
load_relations(lines) == LoadRows(lines, 1, <<>>, 2, {1}, FALSE)

load_triples(lines) == LoadRows(lines, 1, <<>>, 3, 1..5, FALSE)

load_entity_pairs(lines) == LoadRows(lines, 1, <<>>, 2, {1, 2}, FALSE)

\* hypergraph_decomposition.py
_load_triples(lines) == LoadRows(lines, 1, <<>>, 3, 1..5, FALSE)

_load_entity_pairs(lines) == LoadRows(lines, 1, <<>>, 2, {1, 2}, TRUE)

\* multi_scale_fusion.py
load_entity_names(lines) == LoadRows(lines, 1, <<>>, 2, {1}, TRUE)

load_scale_file(lines) == LoadRows(lines, 1, <<>>, 2, {1, 2}, TRUE)

load_sup_pairs(lines) == LoadRows(lines, 1, <<>>, 2, {1, 2}, TRUE)

LoaderNames == {"load_relations", "load_triples", "load_entity_pairs", "_load_triples",
                "_load_entity_pairs", "load_entity_names", "load_scale_file",
                "load_sup_pairs"}

Load(loader, lines) ==
    CASE loader = "load_relations" -> load_relations(lines)
      [] loader = "load_triples" -> load_triples(lines)
      [] loader = "load_entity_pairs" -> load_entity_pairs(lines)
      [] loader = "_load_triples" -> _load_triples(lines)
      [] loader = "_load_entity_pairs" -> _load_entity_pairs(lines)
      [] loader = "load_entity_names" -> load_entity_names(lines)
      [] loader = "load_scale_file" -> load_scale_file(lines)
      [] loader = "load_sup_pairs" -> load_sup_pairs(lines)

\* files of up to MaxLines lines of up to three fields
MaxLines == 2

Fields == {<<"1", "2">>, <<"x">>}

FileLines == UNION {[1..n -> Fields] : n \in 0..3}

InputFiles == UNION {[1..n -> FileLines] : n \in 0..MaxLines}

LoadFile ==
    /\ fpc = "load_file"
    /\ loaded = NotLoaded
    /\ \E loader \in LoaderNames :
          loaded' = [loader |-> loader,
                     raised |-> Load(loader, input_lines).raised,
                     rows |-> Load(loader, input_lines).rows]
    /\ UNCHANGED <<ctlVars, supVars, fpc, passVars, entity_pairs, aspect_mapping,
                   retriever_outputs, linked_outputs, scale_files, entity_times,
                   common_intervals, decomposer, alignVars, input_lines, indexer>>

NextLoad == LoadFile

InitLoad ==
    /\ ControllerIdle
    /\ sup_pairs_file = {{}}
    /\ SupIdle
    /\ fpc = "load_file"
    /\ entity_pairs = <<>>
    /\ RetrievalIdle
    /\ entity_times = [kg1 |-> {}, kg2 |-> {}]
    /\ common_intervals = {}
    /\ decomposer = NewDecomposer
    /\ AlignIdle
    /\ input_lines \in InputFiles
    /\ loaded = NotLoaded
    /\ IndexIdle
    /\ scale_files = [L1 |-> NoFile, L2 |-> NoFile, L3 |-> NoFile]
    /\ PassIdle

SpecLoad == InitLoad /\ [][NextLoad]_vars

\* --------------------------------------------------------- retrieval index
\* retrieval documents: the frontier's KG2 ids and the aspect ids of the
\* iteration
Corpora == {{10}, {10, 100}, {100, temporal_aspect_counter}}

\* force_rebuild is not read: an existing index is kept
prepare_faiss_index(faiss_index, retrieval_doc, force_rebuild) ==
    IF faiss_index # NoFile THEN faiss_index ELSE {retrieval_doc}

\* s4_to_retrieval, step 4: the retrieval document is written anew
CreateRetrievalDocument ==
    /\ fpc = "document"
    /\ \E doc \in Corpora, force_update \in BOOLEAN :
          indexer' = [indexer EXCEPT !.retrieval_doc = doc,
                                     !.force_update = force_update]
    /\ fpc' = "retrieve"
    /\ UNCHANGED <<ctlVars, supVars, passVars, entity_pairs, aspect_mapping,
                   retriever_outputs, linked_outputs, scale_files, entity_times,
                   common_intervals, decomposer, alignVars, loadVars>>

\* neural_retrieval: the index is prepared, then every worker loads it
NeuralRetrieval ==
    /\ fpc = "retrieve"
    /\ LET index == prepare_faiss_index(indexer.faiss_index, indexer.retrieval_doc,
                                        indexer.force_update)
       IN  indexer' = [indexer EXCEPT !.faiss_index = index,
                                      !.process_retriever = Content(index)]
    /\ fpc' = "retrieved"
    /\ UNCHANGED <<ctlVars, supVars, passVars, entity_pairs, aspect_mapping,
                   retriever_outputs, linked_outputs, scale_files, entity_times,
                   common_intervals, decomposer, alignVars, loadVars>>

NextRetrievalIteration ==
    /\ fpc = "retrieved"
    /\ indexer.iteration < MaxIterations
    /\ indexer' = [indexer EXCEPT !.iteration = @ + 1]
    /\ fpc' = "document"
    /\ UNCHANGED <<ctlVars, supVars, passVars, entity_pairs, aspect_mapping,
                   retriever_outputs, linked_outputs, scale_files, entity_times,
                   common_intervals, decomposer, alignVars, loadVars>>

NextIndex == CreateRetrievalDocument \/ NeuralRetrieval \/ NextRetrievalIteration

\* index/faiss_index may be left by an earlier run
InitIndex ==
    /\ ControllerIdle
    /\ sup_pairs_file = {{}}
    /\ SupIdle
    /\ fpc = "document"
    /\ entity_pairs = <<>>
    /\ RetrievalIdle
    /\ entity_times = [kg1 |-> {}, kg2 |-> {}]
    /\ common_intervals = {}
    /\ decomposer = NewDecomposer
    /\ AlignIdle
    /\ LoadIdle
    /\ \E index \in {NoFile} \cup {{c} : c \in Corpora} :
          indexer = [NewIndexer EXCEPT !.faiss_index = index]
    /\ scale_files = [L1 |-> NoFile, L2 |-> NoFile, L3 |-> NoFile]
    /\ PassIdle

SpecIndex == InitIndex /\ [][NextIndex]_vars

\* ------------------------------------------------------- relation alignment
\* an alignment is (kg1_rel_id, kg2_rel_id, score, method); scores are kept
\* in halves (2 is the score 1.0)
RelPairs == {<<1, 5>>, <<1, 6>>}

PairOf(a) == <<a[1], a[2]>>

\* (kg1_rel_id, kg2_rel_id, v) for a similarity or a count v
Valued == {<<p[1], p[2], v>> : p \in RelPairs, v \in {1, 2}}

NoRepeatedPair(s) == \A i, j \in DOMAIN s : i # j => PairOf(s[i]) # PairOf(s[j])

\* text_alignments after its sort: one entry for each relation pair whose
\* similarity reached the threshold, by non-increasing similarity
TextAlignmentLists ==
    {s \in UNION {[1..n -> Valued] : n \in 0..Cardinality(RelPairs)} :
        /\ NoRepeatedPair(s)
        /\ \A i, j \in DOMAIN s : i < j => s[i][3] >= s[j][3]}

\* the items of the cooccurrence dictionary, (kg1_rel_id, kg2_rel_id, count),
\* in the order they were first counted
CooccurrenceLists ==
    {s \in UNION {[1..n -> Valued] : n \in 0..Cardinality(RelPairs)} :
        NoRepeatedPair(s)}

\* min(1.0, count / max_cooccur), in halves
NormalizedScore(count, max_cooccur) == (2 * count) \div max_cooccur

\* the list `alignments` before deduplication
CollectAlignments(text_alignments, cooccurrence) ==
    LET max_cooccur == CHOOSE m \in {cooccurrence[i][3] : i \in DOMAIN cooccurrence} :
                          \A i \in DOMAIN cooccurrence : cooccurrence[i][3] <= m
    IN  [i \in DOMAIN text_alignments |->
            <<text_alignments[i][1], text_alignments[i][2], text_alignments[i][3],
              "text_similarity">>]
        \o [i \in DOMAIN cooccurrence |->
               <<cooccurrence[i][1], cooccurrence[i][2],
                 NormalizedScore(cooccurrence[i][3], max_cooccur), "cooccurrence">>]

\* variant: the entry met first is kept
HigherNever(score, old_score) == FALSE

Higher(score, old_score) == score > old_score

\* alignment_dict as the sequence of its values in insertion order
RECURSIVE MergeAlignments(_)
MergeAlignments(alignments) ==
    IF alignments = <<>> THEN <<>>
    ELSE LET alignment_dict == MergeAlignments(SubSeq(alignments, 1, Len(alignments) - 1))
             new == alignments[Len(alignments)]
         IN  IF \A i \in DOMAIN alignment_dict : PairOf(alignment_dict[i]) # PairOf(new)
             THEN Append(alignment_dict, new)
             ELSE [i \in DOMAIN alignment_dict |->
                     IF PairOf(alignment_dict[i]) = PairOf(new)
                        /\ Higher(new[3], alignment_dict[i][3])
                     THEN new ELSE alignment_dict[i]]

\* sorted(..., key=score, reverse=True): stable
RECURSIVE SortByScore(_)
SortByScore(s) ==
    IF s = <<>> THEN <<>>
    ELSE LET first == CHOOSE i \in DOMAIN s :
                         /\ \A j \in DOMAIN s : s[j][3] <= s[i][3]
                         /\ \A j \in DOMAIN s : j < i => s[j][3] < s[i][3]
         IN  <<s[first]>> \o SortByScore(SubSeq(s, 1, first - 1)
                                          \o SubSeq(s, first + 1, Len(s)))

find_relation_alignments(text_alignments, cooccurrence) ==
    SortByScore(MergeAlignments(CollectAlignments(text_alignments, cooccurrence)))

\* run_relation_alignment_stage in iteration aligner.iteration: without the
\* relation files nothing is computed and None is returned; an empty result
\* returns before the file is written
AlignStage ==
    /\ fpc = "align"
    /\ \/ /\ aligner' = [aligner EXCEPT !.text_alignments = <<>>,
                                         !.cooccurrence = <<>>,
                                         !.final_alignments = <<>>,
                                         !.returned = "None"]
          /\ UNCHANGED relation_alignment_file
       \/ \E text_alignments \in TextAlignmentLists, cooccurrence \in CooccurrenceLists :
             LET alignments == find_relation_alignments(text_alignments, cooccurrence)
             IN  /\ aligner' = [aligner EXCEPT !.text_alignments = text_alignments,
                                               !.cooccurrence = cooccurrence,
                                               !.final_alignments = alignments,
                                               !.returned = "output_file"]
                 /\ relation_alignment_file' =
                       IF alignments = <<>> THEN relation_alignment_file
                       ELSE {alignments}
    /\ fpc' = "load_alignment"
    /\ UNCHANGED <<ctlVars, supVars, passVars, entity_pairs, aspect_mapping,
                   retriever_outputs, linked_outputs, scale_files, entity_times,
                   common_intervals, decomposer, loadVars, indexer>>

\* a new HypergraphDecomposition and its _load_relation_alignment: without
\* the file, or with no line after the header, the map stays empty
LoadAlignment ==
    /\ fpc = "load_alignment"
    /\ decomposer' = [NewDecomposer EXCEPT !.relation_alignment =
                         {PairOf(a) : a \in Range(Lines(relation_alignment_file))}]
    /\ fpc' = "aligned"
    /\ UNCHANGED <<ctlVars, supVars, passVars, entity_pairs, aspect_mapping,
                   retriever_outputs, linked_outputs, scale_files, entity_times,
                   common_intervals, alignVars, loadVars, indexer>>

\* the next iteration of run_full_pipeline calls s4_to_retrieval again
NextAlignIteration ==
    /\ fpc = "aligned"
    /\ aligner.iteration < MaxIterations
    /\ aligner' = [NewAligner EXCEPT !.iteration = aligner.iteration + 1]
    /\ fpc' = "align"
    /\ UNCHANGED <<ctlVars, supVars, passVars, entity_pairs, aspect_mapping,
                   retriever_outputs, linked_outputs, scale_files, entity_times,
                   common_intervals, decomposer, relation_alignment_file, loadVars, indexer>>

NextAlign ==
    \/ AlignStage
    \/ LoadAlignment
    \/ NextAlignIteration

\* relation_alignment.txt as an earlier run may have left it
EarlierAlignmentFiles == {NoFile, {<<<<1, 5, 2, "text_similarity">>>>}}

InitAlign ==
    /\ ControllerIdle
    /\ sup_pairs_file = {{}}
    /\ SupIdle
    /\ fpc = "align"
    /\ entity_pairs = <<<<1, 100>>>>
    /\ RetrievalIdle
    /\ entity_times = [kg1 |-> {}, kg2 |-> {}]
    /\ common_intervals = {}
    /\ decomposer = NewDecomposer
    /\ relation_alignment_file \in EarlierAlignmentFiles
    /\ aligner = NewAligner
    /\ LoadIdle
    /\ IndexIdle
    /\ scale_files = [L1 |-> NoFile, L2 |-> NoFile, L3 |-> NoFile]
    /\ PassIdle

SpecAlign == InitAlign /\ [][NextAlign]_vars

\* one decomposition run computed from loaded KG data
Kg2FrontierIds == {100, 200}

DataFrontiers == UNION {[1..n -> KG1Ids \X Kg2FrontierIds] : n \in 0..MaxPairs}

\* time ids of an entity after _extract_entity_temporal_info
Kg1Times == {{}, {0, 1}}

Kg2Times == {{}, {1, 3}, {2}}

\* (relation, tail) sets of an entity after _extract_entity_relation_info
Kg1Relations == {{}, {<<1, 9>>}}

Kg2Relations == {{}, {<<5, 10>>, <<6, 11>>}}

\* contents of relation_alignment after _load_relation_alignment
Alignments == {{}, {<<1, 5>>}, {<<2, 5>>}, {<<1, 5>>, <<1, 6>>}}

\* the object after load_data
LoadedDecomposers ==
    {[NewDecomposer EXCEPT !.kg1_entity_times = t1, !.kg2_entity_times = t2,
                           !.kg1_entity_relations = r1, !.kg2_entity_relations = r2,
                           !.relation_alignment = a] :
        t1 \in [KG1Ids -> Kg1Times], t2 \in [Kg2FrontierIds -> Kg2Times],
        r1 \in [KG1Ids -> Kg1Relations], r2 \in [Kg2FrontierIds -> Kg2Relations],
        a \in Alignments}

InitProjection ==
    /\ ControllerIdle
    /\ sup_pairs_file = {{}}
    /\ SupIdle
    /\ fpc = "decompose"
    /\ entity_pairs \in DataFrontiers
    /\ RetrievalIdle
    /\ entity_times = [kg1 |-> {}, kg2 |-> {}]
    /\ common_intervals = {}
    /\ decomposer \in LoadedDecomposers
    /\ AlignIdle
    /\ LoadIdle
    /\ IndexIdle
    /\ scale_files = [L1 |-> NoFile, L2 |-> NoFile, L3 |-> NoFile]
    /\ PassIdle

\* decomposer.decompose() in run_hypergraph_decomposition
RunDecompose ==
    /\ fpc = "decompose"
    /\ decomposer' = decompose(decomposer, entity_pairs, 1)
    /\ aspect_mapping' = {<<a, decomposer'.aspect_to_original[a]>> :
                             a \in DOMAIN decomposer'.aspect_to_original}
    /\ fpc' = "retrieve"
    /\ UNCHANGED <<ctlVars, supVars, passVars, entity_pairs, retriever_outputs,
                   linked_outputs, scale_files, entity_times, common_intervals,
                   alignVars, loadVars, indexer>>

NextProjection == RunDecompose

SpecProjection == InitProjection /\ [][NextProjection]_vars

\* the conflict analysis applied to the candidate lists of one KG1 entity
MaxCandidates == 4

IdOrder == <<10, 100, 200, 300>>

\* the analysis reads only the length and the first entry of a list: the
\* lists are the runs of n ids starting at each id
CandidateLists ==
    {<<>>} \cup {[i \in 1..n |-> IdOrder[((first + i - 2) % Len(IdOrder)) + 1]] :
                    first \in DOMAIN IdOrder, n \in 1..MaxCandidates}

InitConflict ==
    /\ ControllerIdle
    /\ sup_pairs_file = {{}}
    /\ SupIdle
    /\ fpc = "analyze"
    /\ entity_pairs = <<>>
    /\ RetrievalIdle
    /\ TimesIdle
    /\ scale_files = [L1 |-> NoFile, L2 |-> NoFile, L3 |-> NoFile]
    /\ multi_scale_pairs \in [{1} -> [{"L1", "L2", "L3"} -> CandidateLists]]
    /\ task_order = <<1>>
    /\ submitted = 0
    /\ tasks = [k \in {1} |-> NewTask]
    /\ result_queue = <<>>
    /\ aligned_pairs = <<>>
    /\ output_file = NoFile

Analyze ==
    /\ fpc = "analyze"
    /\ tasks' = [k \in DOMAIN tasks |->
                    [tasks[k] EXCEPT !.report = {ConflictReport(multi_scale_pairs[k])}]]
    /\ fpc' = "analysed"
    /\ UNCHANGED <<ctlVars, supVars, scaleVars, multi_scale_pairs, task_order,
                   submitted, result_queue, aligned_pairs, output_file>>

NextConflict == Analyze

SpecConflict == InitConflict /\ [][NextConflict]_vars

\* ======================================================================
\* Claims
\* ======================================================================
SupSet == Content(sup_pairs_file)

\* C1: after any sequence of merges of broker outputs (at most one pair per
\* KG1 id each) into a one-to-one supervision set, no KG1 id and no KG2 id
\* occurs in more than one pair of the supervision set.
SupOneToOne == OneToOne(SupSet)

\* C2: a merge accepts a proposed pair only if its KG1 id and its KG2 id are
\* used by no pair of the existing set and the pair is not in it, and it accepts
\* every proposed pair whose two ids are unused; with {(1,100)} existing,
\* (1,200) and (2,100) are rejected and (2,300) is accepted.
MergeFilterRule ==
    LET before == Content(m_prev)
        proposed == Range(m_in)
    IN  /\ \A p \in SupSet \ before :
              /\ p \in proposed
              /\ p[1] \notin Kg1IdsOf(before)
              /\ p[2] \notin Kg2IdsOf(before)
        /\ \A p \in proposed :
              (p[1] \notin Kg1IdsOf(before) /\ p[2] \notin Kg2IdsOf(before))
                  => p \in SupSet
        /\ before \subseteq SupSet
        /\ NewPairs({<<1, 100>>}, <<<<1, 200>>>>) = <<>>
        /\ NewPairs({<<1, 100>>}, <<<<2, 100>>>>) = <<>>
        /\ NewPairs({<<1, 100>>}, <<<<2, 300>>>>) = <<<<2, 300>>>>

MergeFilterWitness ==
    /\ Content(m_prev) = {<<1, 100>>}
    /\ m_in = <<<<1, 200>>, <<2, 300>>>>
    /\ SupSet = {<<1, 100>>, <<2, 300>>}

\* C4: when the distinct-KG1 count of the frontier is below min_kg1_entities
\* at the count check, the run ends there with success: no retrieval, fusion or
\* merge in this iteration, the supervision set as it was, and nothing after.
ThresholdStopsRun ==
    /\ [][(pc = "count" /\ count_unique_kg1_entities(topk) < cfg.min_kg1_entities)
            => /\ pc' = "done"
               /\ result' = "success"
               /\ iteration' = iteration
               /\ sup_pairs_file' = sup_pairs_file
               /\ ran' \cap {"s2r", "fusion", "merge"} = {}]_vars
    /\ [][pc = "done" => UNCHANGED vars]_vars

ThresholdStopWitness ==
    /\ pc = "done"
    /\ exit_reason = "threshold"
    /\ iteration >= 1
    /\ SupSet # {}

ControllerTerminates ==
    /\ <>(pc = "done")
    /\ [](iteration <= cfg.max_iterations)
    /\ []((pc = "done" /\ exit_reason \in {"threshold", "max"}) => result = "success")
    /\ []((result = "failure" /\ ~cfg.only_s4)
            => (~cfg.data_dir \/ (iteration = 1 /\ "s4_failed" \in ran)
                \/ (iteration = 1 /\ cfg.skip_s4 /\ ~check_s4_output(topk))
                \/ (iteration = 1 /\ "s2r" \in ran /\ ~s2r.ok)
                \/ (iteration = 1 /\ "fusion" \in ran /\ ~fusion_ok)))

LastIterationWitness ==
    /\ pc = "done"
    /\ exit_reason = "max"
    /\ iteration = MaxIterations
    /\ "merge" \in ran

\* C7: in the default configuration the upstream stage is skipped exactly when
\* the frontier file exists non-empty at an iteration after the first; a failure
\* of the upstream stage aborts the run at iteration 1 and lets a later
\* iteration go on with the frontier on disk.
UpstreamReuseRule ==
    [][(pc = "s4" /\ ~cfg.skip_s4)
         => /\ (iteration > 1 /\ topk.exists /\ topk.nonempty)
                  => ("s4" \notin ran' /\ topk' = topk /\ pc' = "count")
            /\ ~(iteration > 1 /\ topk.exists /\ topk.nonempty) => "s4" \in ran'
            /\ ("s4_failed" \in ran' /\ iteration = 1)
                  => (pc' = "done" /\ result' = "failure")
            /\ ("s4_failed" \in ran' /\ iteration > 1)
                  => (pc' = "count" /\ result' = "none" /\ topk' = topk)]_vars

UpstreamReuseWitness ==
    /\ ~cfg.skip_s4
    /\ iteration = 2
    /\ pc = "count"
    /\ "s4" \notin ran

\* C8: a stale backup of the KG1 entity file left by a crashed run is restored
\* before any stage reads the entity file or overwrites the backup, in every
\* configuration; the original content is never lost.
StaleBackupRestoredFirst ==
    crashed => (~read_stale /\ (ent_ids_1 = "orig" \/ ent_backup = "orig"))

\* C9: on every exit of the retrieval stage after the backup was created, the
\* KG1 entity file holds the content it had and no backup is left.
EntityFileRestoredOnExit ==
    (pc = "s2r_return" /\ s2r.backup_made)
        => (ent_ids_1 = s2r.saved /\ ent_backup = "absent")

\* C3: the KG2 id of every pair the broker records, persists or hands to the
\* merger, and of every pair of the supervision set, is a real KG2 entity id,
\* never an aspect id.
RecordedKg2IdsAreReal ==
    \A p \in Range(result_queue) \cup Range(aligned_pairs)
             \cup Range(Lines(output_file)) \cup SupSet : p[2] \in KG2Ids

\* C10: the pairs recorded in a fusion pass, the persisted result and the
\* list handed to the merger hold at most one pair for each KG1 id.
OnePairPerKg1 ==
    /\ \A i, j \in DOMAIN result_queue :
          i # j => result_queue[i][1] # result_queue[j][1]
    /\ \A i, j \in DOMAIN aligned_pairs :
          i # j => aligned_pairs[i][1] # aligned_pairs[j][1]
    /\ \A i, j \in DOMAIN Lines(output_file) :
          i # j => Lines(output_file)[i][1] # Lines(output_file)[j][1]

SharedKg2Witness ==
    /\ fpc = "done"
    /\ \E i, j \in DOMAIN aligned_pairs :
          /\ aligned_pairs[i][1] # aligned_pairs[j][1]
          /\ aligned_pairs[i][2] = aligned_pairs[j][2]

\* C11: the file the broker persists and the list it returns hold, as sets,
\* exactly the pairs the tasks recorded; neither holds a pair twice, and the
\* file is in strictly ascending (KG1 id, KG2 id) order.
PersistedResultIsSortedRaw ==
    [][/\ fpc = "write" =>
             /\ Range(result_queue) = Range(aligned_pairs)
             /\ Lines(output_file') = result_queue
       /\ fpc = "dedup" =>
             LET raw == Range(Lines(output_file))
                 written == Lines(output_file')
             IN  /\ Range(written) = raw
                 /\ Range(aligned_pairs') = raw
                 /\ Len(aligned_pairs') = Cardinality(raw)
                 /\ \A i, j \in DOMAIN written :
                       i < j => \/ written[i][1] < written[j][1]
                                \/ /\ written[i][1] = written[j][1]
                                   /\ written[i][2] < written[j][2]]_vars

PersistedResultWitness ==
    /\ fpc = "merge"
    /\ Len(Lines(output_file)) = 2
    /\ aligned_pairs # Lines(output_file)

PairsOfKg1(k, pairs) == SelectSeq(pairs, LAMBDA p : p[1] = k)

\* C12: an entity whose task failed has no recorded pair and at most one
\* oracle call; the failing step records nothing and touches no other task;
\* the pairs recorded for an entity change only in that entity's own parse
\* step; and the pass can always go on until it is done.
EntityFailureIsIsolated ==
    /\ [](\A k \in DOMAIN tasks :
            /\ tasks[k].calls <= 1
            /\ tasks[k].failed =>
                  /\ tasks[k].st = "finished"
                  /\ PairsOfKg1(k, result_queue) = <<>>
                  /\ PairsOfKg1(k, aligned_pairs) = <<>>
                  /\ PairsOfKg1(k, Lines(output_file)) = <<>>)
    /\ [][\A k \in DOMAIN tasks \cap DOMAIN tasks' :
            /\ (tasks'[k].failed /\ ~tasks[k].failed) =>
                  /\ result_queue' = result_queue
                  /\ aligned_pairs' = aligned_pairs
                  /\ \A j \in DOMAIN tasks \ {k} : tasks'[j] = tasks[j]
            /\ PairsOfKg1(k, result_queue \o Lines(output_file))
                  # PairsOfKg1(k, result_queue' \o Lines(output_file')) =>
                  /\ tasks[k].st = "asked"
                  /\ tasks'[k].st = "finished"
                  /\ ~tasks'[k].failed
                  /\ \E rec \in Recorded(k, tasks[k].answer,
                                          AllCandidates(multi_scale_pairs[k])) :
                        PairsOfKg1(k, result_queue')
                           = PairsOfKg1(k, result_queue) \o rec]_vars
    /\ [](fpc \in {"idle", "done"} \/ ENABLED NextFusion)

EntityFailureWitness ==
    /\ fpc = "done"
    /\ \E k, j \in DOMAIN tasks :
          /\ tasks[k].failed
          /\ tasks[k].calls = 1
          /\ PairsOfKg1(j, aligned_pairs) # <<>>

\* C13: when a task parses its answer: the no-match token records nothing;
\* an answer that is exactly the decimal id of a candidate c records (k, c),
\* also when another candidate's id is a substring of the answer; and a
\* recorded KG2 id is always one of the entity's candidates.
AnswerIdentifiesRecordedPair ==
    [][\A k \in DOMAIN tasks \cap DOMAIN tasks' :
          (tasks[k].st = "asked" /\ tasks'[k].st = "finished") =>
             LET answer == tasks[k].answer
                 all_candidates == AllCandidates(multi_scale_pairs[k])
             IN  /\ Lower(answer) = <<"n", "o">> => result_queue' = result_queue
                 /\ \A c \in all_candidates :
                       answer = Str(c) =>
                          /\ result_queue' = Append(result_queue, <<k, c>>)
                          /\ aligned_pairs' = Append(aligned_pairs, <<k, c>>)
                 /\ \A p \in Range(result_queue') \ Range(result_queue) :
                       p[1] = k /\ p[2] \in all_candidates]_vars

\* C14: every step of the pipeline keeps every pair of the supervision set;
\* the set never loses a pair over an iteration; and the supervision file
\* changes only in the step that runs add_to_sup_pairs, after a fusion pass
\* that produced pairs.
SupGrowsOnlyByMerge ==
    /\ [][/\ SupSet \subseteq Content(sup_pairs_file')
          /\ sup_pairs_file' # sup_pairs_file =>
                /\ pc = "fusion"
                /\ fusion_ok'
                /\ Content(sup_pairs_file') # SupSet]_vars
    /\ [](Content(sup_at_iter) \subseteq SupSet)

SupGrowthWitness ==
    /\ pc = "fusion_return"
    /\ iteration = 2
    /\ sup_at_iter # NoFile
    /\ Content(sup_at_iter) # {}
    /\ Content(sup_at_iter) # SupSet

\* C15: after add_to_sup_pairs on any list of proposed pairs, the returned
\* count is the size of the supervision set after the call minus its size
\* before, and is 0 when no pair was accepted.
ReturnedCountIsGrowth ==
    /\ m_ret = Cardinality(SupSet) - Cardinality(Content(m_prev))
    /\ NewPairs(Content(m_prev), m_in) = <<>> => m_ret = 0

\* the scales of an entity that have candidates, the rank-1 candidate of a
\* scale, and the number of scales proposing a value as rank-1
NonEmptyScales(info) == {scale \in Range(Scales) : info[scale] # <<>>}

Rank1(info, scale) == info[scale][1]

Occurrences(info, v) ==
    Cardinality({scale \in NonEmptyScales(info) : Rank1(info, scale) = v})

Rank1Differ(info) ==
    \E s, t \in NonEmptyScales(info) : Rank1(info, s) # Rank1(info, t)

ScaleIndex(scale) == CHOOSE i \in DOMAIN Scales : Scales[i] = scale

\* C16: when the rank-1 candidates of the non-empty scales are not all
\* equal, a conflict is reported; the consensus is a most frequent rank-1
\* value, of several most frequent ones the one met first in the order L1,
\* L2, L3; the dissenting scales are exactly the non-empty scales whose
\* rank-1 differs from the consensus (rank-1 a, a, b gives consensus a and
\* dissenting L3).
ConsensusIsFirstMajority ==
    \A k \in DOMAIN tasks : \A r \in tasks[k].report :
       LET info == multi_scale_pairs[k]
           cross == r.cross_scale_conflicts
       IN  Rank1Differ(info) =>
              /\ cross.has_conflict
              /\ \E s \in NonEmptyScales(info) :
                    /\ cross.consensus_candidate = {Rank1(info, s)}
                    /\ \A t \in NonEmptyScales(info) :
                          /\ Occurrences(info, Rank1(info, t))
                                <= Occurrences(info, Rank1(info, s))
                          /\ ScaleIndex(t) < ScaleIndex(s) =>
                                Occurrences(info, Rank1(info, t))
                                   < Occurrences(info, Rank1(info, s))
              /\ Range(cross.conflicting_scales)
                    = {s \in NonEmptyScales(info) :
                          {Rank1(info, s)} # cross.consensus_candidate}
              /\ Len(cross.conflicting_scales)
                    = Cardinality(Range(cross.conflicting_scales))
              /\ ( /\ NonEmptyScales(info) = Range(Scales)
                   /\ Rank1(info, "L1") = Rank1(info, "L2") )
                    => /\ cross.consensus_candidate = {Rank1(info, "L1")}
                       /\ cross.conflicting_scales = <<"L3">>

\* three scales, three different rank-1 candidates: the tie goes to L1's
ConsensusTieWitness ==
    \E k \in DOMAIN tasks : \E r \in tasks[k].report :
       /\ r.cross_scale_conflicts.has_conflict
       /\ r.cross_scale_conflicts.conflicting_scales = <<"L2", "L3">>
       /\ r.cross_scale_conflicts.consensus_candidate
             = {multi_scale_pairs[k]["L1"][1]}

\* C17: a cross-scale conflict is reported exactly when at least two scales
\* are non-empty and their rank-1 candidates are not all equal; without a
\* conflict the dissenting list is empty and the consensus is the common
\* rank-1 value of the non-empty scales, none when all scales are empty.
ConflictIffRank1Differ ==
    \A k \in DOMAIN tasks : \A r \in tasks[k].report :
       LET info == multi_scale_pairs[k]
           cross == r.cross_scale_conflicts
       IN  /\ cross.has_conflict <=>
                 (Cardinality(NonEmptyScales(info)) >= 2 /\ Rank1Differ(info))
           /\ ~cross.has_conflict =>
                 /\ cross.conflicting_scales = <<>>
                 /\ cross.consensus_candidate =
                       {Rank1(info, s) : s \in NonEmptyScales(info)}

\* two scales with different rank-1 candidates and the third empty
TwoScaleConflictWitness ==
    \E k \in DOMAIN tasks : \E r \in tasks[k].report :
       /\ r.cross_scale_conflicts.has_conflict
       /\ Cardinality(NonEmptyScales(multi_scale_pairs[k])) = 2

\* C18: for every scale with n candidates the confidence label is strong
\* exactly when n = 1, medium exactly when n is 2 or 3 and weak exactly when
\* n > 3; the scales flagged as ambiguous are exactly those with n > 3.
ConfidenceLabelByCount ==
    \A k \in DOMAIN tasks : \A r \in tasks[k].report :
       /\ \A scale \in Range(Scales) :
             LET n == Len(multi_scale_pairs[k][scale])
                 label == r.scale_analysis[scale].confidence_signal
             IN  /\ r.scale_analysis[scale].candidate_count = n
                 /\ label = "strong" <=> n = 1
                 /\ label = "medium" <=> n \in {2, 3}
                 /\ label = "weak" <=> n > 3
       /\ Range(r.intra_scale_conflicts.conflicted_scales)
             = {scale \in Range(Scales) : Len(multi_scale_pairs[k][scale]) > 3}

\* C19: the interval list computed for two sets of time ids is sorted
\* ascending with every next start above the previous end + 1 (so the
\* intervals neither overlap nor touch), covers exactly the intersection of
\* the two sets, and is empty exactly when the intersection is empty.
IntervalsCoverIntersection ==
    \A intervals \in common_intervals :
       LET common_times == entity_times.kg1 \cap entity_times.kg2
       IN  /\ \A i \in DOMAIN intervals : intervals[i][1] <= intervals[i][2]
           /\ \A i \in DOMAIN intervals :
                 i < Len(intervals) => intervals[i + 1][1] > intervals[i][2] + 1
           /\ UNION {intervals[i][1]..intervals[i][2] : i \in DOMAIN intervals}
                 = common_times
           /\ intervals = <<>> <=> common_times = {}

\* two intervals, the first spanning more than one time id
TwoIntervalsWitness ==
    \E intervals \in common_intervals :
       /\ Len(intervals) = 2
       /\ intervals[1][1] < intervals[1][2]
       /\ entity_times.kg1 # entity_times.kg2

\* C20: after a decomposition run no aspect id was given to two aspects
\* (none is both a temporal and a relational aspect id), and no aspect id is
\* the id of a KG1 or KG2 entity of the frontier.
AspectIdsAreFresh ==
    fpc = "retrieve" =>
       /\ \A a, b \in aspect_mapping : a[1] = b[1] => a = b
       /\ AspectIdsOf(aspect_mapping)
             \cap (Kg1IdsOf(Range(entity_pairs)) \cup Kg2IdsOf(Range(entity_pairs))) = {}

\* positions of the frontier whose pair has a temporal (relational) aspect
\* to get, by the data the run loaded
WithCommonTimes ==
    {i \in DOMAIN entity_pairs :
        Get(decomposer.kg1_entity_times, entity_pairs[i][1])
           \cap Get(decomposer.kg2_entity_times, entity_pairs[i][2]) # {}}

MatchedSet(i) ==
    LET e1 == entity_pairs[i][1]
        e2 == entity_pairs[i][2]
        images == {a[2] : a \in {b \in decomposer.relation_alignment :
                                    \E r \in Get(decomposer.kg1_entity_relations, e1) :
                                       r[1] = b[1]}}
    IN  {r \in Get(decomposer.kg2_entity_relations, e2) : r[1] \in images}

WithMatchedSet == {i \in DOMAIN entity_pairs : MatchedSet(i) # {}}

\* the position of the frontier that produced the j-th aspect of a kind
Producer(S, j) == CHOOSE i \in S : Cardinality({h \in S : h < i}) = j - 1

Covered(intervals) ==
    UNION {intervals[i][1]..intervals[i][2] : i \in DOMAIN intervals}

\* C22: a decomposition run creates, in frontier order, one temporal aspect
\* for each frontier pair whose time-id sets intersect and for no other, and
\* one relational aspect for each pair whose matched set is non-empty and
\* for no other; an aspect is listed under its pair's KG1 id, has the pair's
\* KG2 id as origin and carries all common time ids, or the whole matched
\* set.
OneAspectPerPairAndKind ==
    fpc = "retrieve" =>
       LET t == decomposer.temporal_result
           r == decomposer.relational_result
       IN  /\ Len(t) = Cardinality(WithCommonTimes)
           /\ Len(r) = Cardinality(WithMatchedSet)
           /\ DOMAIN decomposer.temporal_aspects = {t[j][2] : j \in DOMAIN t}
           /\ DOMAIN decomposer.relational_aspects = {r[j][2] : j \in DOMAIN r}
           /\ \A j \in DOMAIN t :
                 LET pair == entity_pairs[Producer(WithCommonTimes, j)]
                     aspect == decomposer.temporal_aspects[t[j][2]]
                 IN  /\ t[j][1] = pair[1]
                     /\ aspect[1] = pair[2]
                     /\ Covered(aspect[2])
                           = Get(decomposer.kg1_entity_times, pair[1])
                                \cap Get(decomposer.kg2_entity_times, pair[2])
           /\ \A j \in DOMAIN r :
                 LET i == Producer(WithMatchedSet, j)
                     aspect == decomposer.relational_aspects[r[j][2]]
                 IN  /\ r[j][1] = entity_pairs[i][1]
                     /\ aspect[1] = entity_pairs[i][2]
                     /\ aspect[2] = MatchedSet(i)

\* of two pairs whose entities all have time ids, only the second shares one
DisjointTimesWitness ==
    /\ fpc = "retrieve"
    /\ Len(entity_pairs) = 2
    /\ WithCommonTimes = {2}
    /\ Get(decomposer.kg2_entity_times, entity_pairs[1][2]) # {}
    /\ Get(decomposer.kg1_entity_times, entity_pairs[1][1]) # {}
    /\ decomposer.temporal_result = <<<<entity_pairs[2][1], temporal_aspect_counter>>>>

AlignmentMapIsFresh ==
    fpc = "aligned" =>
       decomposer.relation_alignment
          = {PairOf(a) : a \in Range(aligner.final_alignments)}

\* the scores the two methods gave a relation pair in the running stage
MethodScores(pair) ==
    LET text == aligner.text_alignments
        cooccurrence == aligner.cooccurrence
        max_cooccur == CHOOSE m \in {cooccurrence[i][3] : i \in DOMAIN cooccurrence} :
                          \A i \in DOMAIN cooccurrence : cooccurrence[i][3] <= m
    IN  {text[i][3] : i \in {j \in DOMAIN text : PairOf(text[j]) = pair}}
        \cup {(2 * cooccurrence[i][3]) \div max_cooccur :
                 i \in {j \in DOMAIN cooccurrence : PairOf(cooccurrence[j]) = pair}}

\* C25: the list the relation aligner returns has one entry for each
\* relation pair a method proposed and none twice, the score of an entry is
\* the highest score a method gave its pair, and the list is ordered by
\* non-increasing score.
AlignmentsMergedByMaxScore ==
    LET final == aligner.final_alignments
    IN  /\ NoRepeatedPair(final)
        /\ {PairOf(final[i]) : i \in DOMAIN final}
              = {p \in RelPairs : MethodScores(p) # {}}
        /\ \A i \in DOMAIN final :
              /\ final[i][3] \in MethodScores(PairOf(final[i]))
              /\ \A v \in MethodScores(PairOf(final[i])) : v <= final[i][3]
        /\ \A i, j \in DOMAIN final : i < j => final[i][3] >= final[j][3]

\* a pair both methods proposed, co-occurrence scoring it higher, is listed
\* first with the co-occurrence score
HigherCooccurrenceWitness ==
    LET final == aligner.final_alignments
    IN  /\ Len(final) = 2
        /\ final[1][4] = "cooccurrence"
        /\ final[1][3] > final[2][3]
        /\ \E i \in DOMAIN aligner.text_alignments :
              /\ PairOf(aligner.text_alignments[i]) = PairOf(final[1])
              /\ aligner.text_alignments[i][3] < final[1][3]

\* the lines of the input file a loader has to accept: enough columns and
\* integers where it reads ids
WellFormed(loader, line) ==
    LET min_columns == IF loader \in {"load_triples", "_load_triples"} THEN 3 ELSE 2
        id_columns == IF loader \in {"load_triples", "_load_triples"} THEN 1..3
                      ELSE IF loader \in {"load_relations", "load_entity_names"} THEN {1}
                      ELSE {1, 2}
    IN  /\ Len(line) >= min_columns
        /\ \A c \in id_columns : IsInt(line[c])

\* C26: whatever lines an input file holds, no loader fails on it, and each
\* loads one row for every well-formed line of the file, malformed lines
\* being passed over.
MalformedLinesAreSkipped ==
    loaded.loader # "none" =>
       /\ ~loaded.raised
       /\ Len(loaded.rows)
             = Cardinality({i \in DOMAIN input_lines :
                               WellFormed(loaded.loader, input_lines[i])})

\* C27: a retrieval that finds a persisted index and was not asked to rebuild
\* searches that index; a retrieval asked to rebuild searches an index built
\* from the retrieval document of its own iteration.
IndexRebuiltOnRequest ==
    fpc = "retrieved" =>
       /\ indexer.faiss_index # NoFile
       /\ indexer.process_retriever = Content(indexer.faiss_index)
       /\ indexer.force_update => indexer.process_retriever = indexer.retrieval_doc

AllRecorded == UNION {tasks[k].recorded : k \in DOMAIN tasks}

\* C28: whatever order the tasks of a pass complete in, the shared queue
\* holds exactly the pairs the tasks have recorded, it grows by one task's
\* pairs at a time and is drained only once every task has finished, and the
\* persisted result is the sorted list of the recorded pairs.
FusionResultIsOrderIndependent ==
    /\ [](/\ fpc \in {"submit", "shutdown", "write"}
             => Range(result_queue) = AllRecorded
          /\ fpc = "dedup" => Range(Lines(output_file)) = AllRecorded
          /\ fpc = "merge" => Lines(output_file) = SortPairs(AllRecorded))
    /\ [][/\ Len(result_queue') < Len(result_queue)
             => \A k \in DOMAIN tasks : tasks[k].st = "finished"
          /\ Len(result_queue') > Len(result_queue)
             => \E k \in DOMAIN tasks :
                   /\ tasks[k].st = "asked"
                   /\ result_queue' = result_queue \o SortPairs(tasks'[k].recorded)
                   /\ \A j \in DOMAIN tasks \ {k} : tasks'[j] = tasks[j]]_vars

\* two tasks completed against the submission order, their pairs written
\* to the output file in completion order
OutOfOrderCompletionWitness ==
    /\ fpc = "dedup"
    /\ Len(Lines(output_file)) = 2
    /\ Lines(output_file)[1][1] > Lines(output_file)[2][1]
    /\ task_order = <<1, 2>>

\* the first iteration's Step 1 is over
PastFirstUpstream == iteration > 1 \/ (iteration = 1 /\ pc # "s4")

\* C29: once the frontier file exists non-empty after the first iteration's
\* upstream step, no step of the run changes it, so the count of its KG1
\* entities stays what it was at iteration 1 and a run that passed the
\* threshold at iteration 1 never stops by the threshold later.
FrontierFrozenAfterFirstUpstream ==
    /\ [](exit_reason = "threshold" => iteration = 1)
    /\ [][PastFirstUpstream /\ check_s4_output(topk) => topk' = topk]_vars

\* the second iteration has passed the threshold test on the reused file
SecondIterationReuseWitness ==
    /\ iteration = 2
    /\ ~cfg.skip_s4
    /\ pc = "s2r_prepare"
    /\ check_s4_output(topk)

\* C30: a merge called with the list the previous merge was called with
\* accepts no pair: it returns 0 and leaves the supervision set and its
\* backup as the previous merge left them.
RepeatedMergeChangesNothing ==
    [][m_in' = m_in => /\ m_ret' = 0
                       /\ sup_pairs_file' = sup_pairs_file
                       /\ sup_backup_file' = sup_backup_file]_vars

\* the second of two merges of one list is over: the first wrote the list's
\* pairs over the backed-up set, the second found the set already holding them
MergedTwiceWitness ==
    /\ m_in # <<>>
    /\ m_ret = 0
    /\ m_prev = sup_pairs_file
    /\ sup_backup_file # NoFile
    /\ Content(sup_pairs_file) = Content(sup_backup_file) \cup Range(m_in)
    /\ Range(m_in) \cap Content(sup_backup_file) = {}

====
